---- MODULE Spec2Model ----
(***************************************************************************)
(* SiameseNetwork (src/model.py): construction, the forward pass `call`,   *)
(* `compute_output_shape`, the L1 Lambda layer and the encoder layer stack.*)
(*                                                                         *)
(* Tensors are modelled at reduced size: an image is an identifier in      *)
(* 1..NumImages, an embedding is a vector of EmbDim integers, a batched    *)
(* tensor is a sequence of rows.  The trainable parameters are one index   *)
(* `weights` into an enumeration of the functions image -> embedding.      *)
(* What the external tensor library does with an argument it was not       *)
(* designed for (the whole input pair given to the first convolution) is a *)
(* nondeterministic choice between rejecting it and treating it as a batch.*)
(***************************************************************************)
EXTENDS Integers, Sequences, FiniteSets, TLC

VARIABLES
    state,      \* "Uninitialized" | "Built" | "Evaluating" | "Idle" | "Failed"
    self,       \* attributes of the instance: configuration and layer object ids
    heap,       \* the layer objects allocated so far (sequence of descriptors)
    weights,    \* the trainable parameter values held by the layer objects
    pc,         \* line of model.py the running `call` executes next, 0 if none
    locals,     \* local variables of the running `call`
    encIn,      \* per encoder invocation: the value fed to the convolutions
    used,       \* per encoder invocation: the layer objects it invoked
    result,     \* outcome of the last finished `call`
    prev,       \* input and outcome of the `call` finished before the last one
    lastShape,  \* argument and return value of the last compute_output_shape
    l1_in,      \* direct invocation of the L1 layer: its argument
    l1_out,     \* direct invocation of the L1 layer: its return value
    encInput,   \* encoder stack on a shape: the input shape
    encShape,   \* encoder stack on a shape: the shape so far
    encStep     \* encoder stack on a shape: number of layers applied

mvars == <<state, self, heap, weights, pc, locals, encIn, used, result, prev, lastShape>>
lvars == <<l1_in, l1_out>>
evars == <<encInput, encShape, encStep>>
vars == <<state, self, heap, weights, pc, locals, encIn, used, result, prev, lastShape,
          l1_in, l1_out, encInput, encShape, encStep>>

\* ---------------------------------------------------------------- bounds
NumImages == 2
EmbDim == 2
MaxVal == 1
MaxW == 3
SideSpread == 2

\* ------------------------------------------------------ program constants
DefaultNumClasses == 1
DefaultBatchSize == 16
ImageSide == 105
EmbUnits == 4096
DocFlatLen == 9216

None == [kind |-> "none"]
Unbound == [bound |-> FALSE]
Bound(v) == [bound |-> TRUE, v |-> v]

Images == 1..NumImages
Pairs == {<<a, b>> : a \in Images, b \in Images}
NumClassesArgs == {-1, 0, DefaultNumClasses, 5}
BatchSizeArgs == {1, DefaultBatchSize}
DefaultInShape == <<ImageSide, ImageSide, 1>>

Abs(n) == IF n < 0 THEN -n ELSE n

RECURSIVE Pow(_, _)
Pow(b, e) == IF e = 0 THEN 1 ELSE b * Pow(b, e - 1)

\* ------------------------------------------------------------ the layers
LayerObjects(nc, bs, shp) ==
    << [attr |-> "input_layer", kind |-> "InputLayer", shape |-> shp, batch |-> bs],
       [attr |-> "conv1", kind |-> "Conv2D", filters |-> 64, kernel |-> 10],
       [attr |-> "pool1", kind |-> "MaxPool2D", pool |-> 2],
       [attr |-> "conv2", kind |-> "Conv2D", filters |-> 128, kernel |-> 7],
       [attr |-> "pool2", kind |-> "MaxPool2D", pool |-> 2],
       [attr |-> "conv3", kind |-> "Conv2D", filters |-> 128, kernel |-> 4],
       [attr |-> "pool3", kind |-> "MaxPool2D", pool |-> 2],
       [attr |-> "conv4", kind |-> "Conv2D", filters |-> 256, kernel |-> 4],
       [attr |-> "pool4", kind |-> "MaxPool2D", pool |-> 2],
       [attr |-> "flatten", kind |-> "Flatten"],
       [attr |-> "dense", kind |-> "Dense", units |-> EmbUnits],
       [attr |-> "l1", kind |-> "Lambda"],
       [attr |-> "prediction", kind |-> "Dense", units |-> nc] >>

LayerAttrs == {"input_layer", "conv1", "pool1", "conv2", "pool2", "conv3", "pool3",
               "conv4", "pool4", "flatten", "dense", "l1", "prediction"}

\* the layers that hold the encoder's trainable parameters
EncoderParamAttrs == {"conv1", "conv2", "conv3", "conv4", "dense"}

\* the attributes the closure `encoder` reads, in the order it applies them
EncoderOrder == <<"conv1", "pool1", "conv2", "pool2", "conv3", "pool3",
                  "conv4", "pool4", "flatten", "dense">>

IdOf(objs, a) == CHOOSE i \in 1..Len(objs) : objs[i].attr = a

NewSelf(nc, bs, shp) ==
    [num_classes |-> nc, batch_size |-> bs, in_shape |-> shp,
     layer |-> [a \in LayerAttrs |-> IdOf(LayerObjects(nc, bs, shp), a)]]

\* ------------------------------------------------------- tensor functions
\* the embedding the encoder with parameters w computes for one image
Embed(w, img) ==
    [j \in 1..EmbDim |->
        (w \div Pow(MaxVal + 1, (img - 1) * EmbDim + (j - 1))) % (MaxVal + 1)]

\* the encoder stack applied to a batch of images
Encode(w, batch) == [i \in 1..Len(batch) |-> Embed(w, batch[i])]

\* inputs[i] (Python index i-1): the tensor holding only the i-th image
Item(inputs, i) == <<inputs[i]>>

\* keras.layers.InputLayer passes its argument through
InputLayer(v) == v

L1_NoAbs(x) ==
    [i \in 1..Len(x[1]) |-> [j \in 1..Len(x[1][i]) |-> x[1][i][j] - x[2][i][j]]]

\* self.l1 = Lambda(lambda x: tf.abs(x[0] - x[1]))
L1(x) ==
    [i \in 1..Len(x[1]) |-> [j \in 1..Len(x[1][i]) |-> Abs(x[1][i][j] - x[2][i][j])]]

\* self.prediction: a Dense layer of `units` sigmoid units applied to v
Prediction(units, w, v) ==
    [shape |-> <<Len(v), units>>, dense |-> [w |-> w, arg |-> v]]

Error(exc, inp) == [kind |-> "error", exc |-> exc, inputs |-> inp]
Value(v, inp) == [kind |-> "value", value |-> v, inputs |-> inp]

NoLocals == [inputs |-> Unbound, first |-> Unbound, second |-> Unbound,
             distance |-> Unbound, x |-> Unbound]

\* tf.TensorShape(input_shape).as_list(); shape[-1] = self.num_classes
compute_output_shape(slf, input_shape) ==
    [input_shape EXCEPT ![Len(input_shape)] = slf.num_classes]

\* the closure `encoder(x)` of `call`: line 102 feeds `inputs`, not x
encoder(x, inputs, w) == Encode(w, InputLayer(inputs))

\* the layer objects the closure `encoder` invokes
EncoderLayers(slf) == {slf.layer[EncoderOrder[i]] : i \in 1..Len(EncoderOrder)}

\* output shape of one layer on a batched input shape (valid padding, stride 1;
\* pooling stride = pool size)
LayerShape(l, s) ==
    CASE l.kind = "Conv2D" -> <<s[1], s[2] - l.kernel + 1, s[3] - l.kernel + 1, l.filters>>
      [] l.kind = "MaxPool2D" -> <<s[1], s[2] \div l.pool, s[3] \div l.pool, s[4]>>
      [] l.kind = "Flatten" -> <<s[1], s[2] * s[3] * s[4]>>
      [] l.kind = "Dense" -> <<s[1], l.units>>
      [] OTHER -> s

\* the descriptor of the k-th layer the encoder applies
EncoderLayerAt(k) ==
    LET objs == LayerObjects(DefaultNumClasses, DefaultBatchSize, DefaultInShape)
    IN  objs[IdOf(objs, EncoderOrder[k])]

\* ------------------------------------------------------------------ Init
MInit ==
    /\ state = "Uninitialized"
    /\ self = None
    /\ heap = <<>>
    /\ weights = <<>>
    /\ pc = 0
    /\ locals = NoLocals
    /\ encIn = <<None, None>>
    /\ used = <<{}, {}>>
    /\ result = None
    /\ prev = None
    /\ lastShape = None

LIdle == l1_in = None /\ l1_out = None
EIdle == encInput = <<>> /\ encShape = <<>> /\ encStep = 0

Init == MInit /\ LIdle /\ EIdle

\* ------------------------------------------------------------ __init__
\* SiameseNetwork.__init__: stores the arguments unchecked and allocates every
\* layer once.  `weights` is the value the layers' random initializers give the
\* parameters; it is drawn here, whenever the library materialises it.
Construct ==
    /\ state = "Uninitialized"
    /\ \E nc \in NumClassesArgs, bs \in BatchSizeArgs, w \in 0..MaxW :
         /\ self' = NewSelf(nc, bs, DefaultInShape)
         /\ heap' = LayerObjects(nc, bs, DefaultInShape)
         /\ weights' = <<w>>
    /\ state' = "Built"
    /\ result' = None
    /\ UNCHANGED <<pc, locals, encIn, used, prev, lastShape, lvars, evars>>

\* Dense(units=num_classes) with a negative unit count: library versions that
\* validate `units` raise from __init__, no instance results.
ConstructRejected ==
    /\ state = "Uninitialized"
    /\ result = None
    /\ \E nc \in NumClassesArgs :
         /\ nc < 0
         /\ result' = [kind |-> "ctor_error", num_classes |-> nc]
    /\ UNCHANGED <<state, self, heap, weights, pc, locals, encIn, used, prev, lastShape,
                   lvars, evars>>

\* ---------------------------------------------------------------- call
CanStart == state \in {"Built", "Idle", "Failed"}

\* raise exc out of the running call
Raise(exc) ==
    /\ state' = "Failed"
    /\ pc' = 0
    /\ result' = Error(exc, locals.inputs.v)
    /\ locals' = NoLocals

CallBegin ==
    /\ CanStart
    /\ \E inp \in Pairs : locals' = [NoLocals EXCEPT !.inputs = Bound(inp)]
    /\ state' = "Evaluating"
    /\ pc' = 117
    /\ encIn' = <<None, None>>
    /\ used' = <<{}, {}>>
    /\ prev' = IF result.kind \in {"value", "error"} THEN result ELSE prev
    /\ result' = None
    /\ UNCHANGED <<self, heap, weights, lastShape, lvars, evars>>

\* line 117: first = encoder(inputs[0]), the library accepting the argument
First ==
    /\ state = "Evaluating" /\ pc = 117
    /\ locals' = [locals EXCEPT
                    !.first = Bound(encoder(Item(locals.inputs.v, 1), locals.inputs.v, weights[1]))]
    /\ encIn' = [encIn EXCEPT ![1] = Bound(InputLayer(locals.inputs.v))]
    /\ used' = [used EXCEPT ![1] = EncoderLayers(self)]
    /\ pc' = 118
    /\ UNCHANGED <<state, self, heap, weights, result, prev, lastShape, lvars, evars>>

\* line 117: the library rejects the whole pair as the convolution's input
FirstRejected ==
    /\ state = "Evaluating" /\ pc = 117
    /\ encIn' = [encIn EXCEPT ![1] = Bound(InputLayer(locals.inputs.v))]
    /\ Raise("ValueError")
    /\ UNCHANGED <<self, heap, weights, used, prev, lastShape, lvars, evars>>

\* a second tower built from its own, separately initialised layers
Second_TwinTower ==
    /\ state = "Evaluating" /\ pc = 118
    /\ heap' = heap \o [k \in 1..Len(EncoderOrder) |-> heap[self.layer[EncoderOrder[k]]]]
    /\ locals' = [locals EXCEPT
                    !.second = Bound(encoder(Item(locals.inputs.v, 2), locals.inputs.v, weights[1]))]
    /\ encIn' = [encIn EXCEPT ![2] = Bound(InputLayer(locals.inputs.v))]
    /\ used' = [used EXCEPT ![2] = {Len(heap) + k : k \in 1..Len(EncoderOrder)}]
    /\ pc' = 121
    /\ UNCHANGED <<state, self, weights, result, prev, lastShape, lvars, evars>>

\* line 118: second = encoder(inputs[1])
Second ==
    /\ state = "Evaluating" /\ pc = 118
    /\ locals' = [locals EXCEPT
                    !.second = Bound(encoder(Item(locals.inputs.v, 2), locals.inputs.v, weights[1]))]
    /\ encIn' = [encIn EXCEPT ![2] = Bound(InputLayer(locals.inputs.v))]
    /\ used' = [used EXCEPT ![2] = EncoderLayers(self)]
    /\ pc' = 121
    /\ UNCHANGED <<state, self, heap, weights, result, prev, lastShape, lvars, evars>>

\* line 121: distance = self.l1((first, second))
Distance ==
    /\ state = "Evaluating" /\ pc = 121
    /\ locals' = [locals EXCEPT !.distance = Bound(L1(<<locals.first.v, locals.second.v>>))]
    /\ pc' = 124
    /\ UNCHANGED <<state, self, heap, weights, encIn, used, result, prev, lastShape,
                   lvars, evars>>

\* lines 124-126: x = self.prediction(x); return x.  `x` is a local of `call`
\* (assigned on line 124), read here before any assignment.
Predict ==
    /\ state = "Evaluating" /\ pc = 124
    /\ IF ~locals.x.bound
         THEN Raise("UnboundLocalError")
         ELSE /\ result' = Value(Prediction(self.num_classes, weights[1], locals.x.v),
                                 locals.inputs.v)
              /\ state' = "Idle"
              /\ pc' = 0
              /\ locals' = NoLocals
    /\ UNCHANGED <<self, heap, weights, encIn, used, prev, lastShape, lvars, evars>>

\* ---------------------------------------------------- compute_output_shape
ShapeArgs == {<<b, ImageSide, ImageSide, 1>> : b \in BatchSizeArgs}

\* the assignment of line 130 reversed: self.num_classes = shape[-1]
ComputeOutputShape_Reversed ==
    /\ CanStart
    /\ \E s \in ShapeArgs :
         /\ lastShape' = [kind |-> "shape", in |-> s, out |-> s]
         /\ self' = [self EXCEPT !.num_classes = s[Len(s)]]
    /\ UNCHANGED <<state, heap, weights, pc, locals, encIn, used, result, prev,
                   lvars, evars>>

ComputeOutputShape ==
    /\ CanStart
    /\ \E s \in ShapeArgs :
         lastShape' = [kind |-> "shape", in |-> s, out |-> compute_output_shape(self, s)]
    /\ UNCHANGED <<state, self, heap, weights, pc, locals, encIn, used, result, prev,
                   lvars, evars>>

\* ------------------------------------------------ the external optimizer
\* net.compile(optimizer=Adam ...): a training step replaces the parameter values
Train ==
    /\ CanStart
    /\ \E w \in 0..MaxW : w # weights[1] /\ weights' = <<w>>
    /\ result' = None
    /\ prev' = None
    /\ UNCHANGED <<state, self, heap, pc, locals, encIn, used, lastShape, lvars, evars>>

CallStep == CallBegin \/ First \/ FirstRejected \/ Second \/ Distance \/ Predict

Next ==
    \/ Construct
    \/ ConstructRejected
    \/ CallBegin
    \/ First
    \/ FirstRejected
    \/ Second
    \/ Distance
    \/ Predict
    \/ ComputeOutputShape
    \/ Train

Spec == Init /\ [][Next]_vars

\* ------------------------------------------- the L1 layer invoked directly
L1Rows == {<<v>> : v \in [1..EmbDim -> (0 - MaxVal)..MaxVal]}

L1Init == MInit /\ EIdle /\ l1_in \in {Bound(<<a, b>>) : a \in L1Rows, b \in L1Rows}
                /\ l1_out = None

L1Call ==
    /\ l1_out = None
    /\ l1_out' = Bound(L1(l1_in.v))
    /\ UNCHANGED <<l1_in, mvars, evars>>

L1Next == L1Call

SpecL1 == L1Init /\ [][L1Next]_vars

\* ------------------------------ the encoder stack applied to an input shape
EncInputs ==
    {<<1, h, w, 1>> : h \in (ImageSide - SideSpread)..(ImageSide + SideSpread),
                      w \in (ImageSide - SideSpread)..(ImageSide + SideSpread)}

EncInit == MInit /\ LIdle /\ encInput \in EncInputs /\ encShape = encInput /\ encStep = 0

EncLayer ==
    /\ encStep < Len(EncoderOrder)
    /\ encShape' = LayerShape(EncoderLayerAt(encStep + 1), encShape)
    /\ encStep' = encStep + 1
    /\ UNCHANGED <<encInput, mvars, lvars>>

EncNext == EncLayer

SpecEnc == EncInit /\ [][EncNext]_vars

\* ================================================================ claims
\* the parameter-holding layer objects of the encoder, as `self` names them
EncoderParamIds == {self.layer[a] : a \in EncoderParamAttrs}

\* a finished pass that the tensor library did not reject
Accepted(r) == r.kind = "value" \/ (r.kind = "error" /\ r.exc # "ValueError")

\* C1: once constructed there is exactly one layer object for each of conv1..conv4
\* and dense, and every encoder invocation of a forward pass (first and second
\* tower) invokes exactly the layer objects `self` holds, so both read one
\* parameter set.
C1_WeightSharing ==
    state # "Uninitialized" =>
        /\ \A a \in EncoderParamAttrs :
              Cardinality({i \in 1..Len(heap) : heap[i].attr = a}) = 1
        /\ \A t \in 1..2 :
              used[t] # {} =>
                 /\ used[t] = EncoderLayers(self)
                 /\ EncoderParamIds \subseteq used[t]
        /\ (used[1] # {} /\ used[2] # {}) => used[1] = used[2]

\* C1 witness: both encoder invocations of one pass have run
C1_Witness == state = "Evaluating" /\ pc = 121 /\ used[1] # {} /\ used[2] # {}

\* C2: the step that applies the classifier (lines 124-126) returns the
\* classifier's output on the distance vector computed in the same call.
C2_ClassifierOnDistance ==
    [][(state = "Evaluating" /\ pc = 124 /\ pc' # 124) =>
          /\ result'.kind = "value"
          /\ result'.value = Prediction(self.num_classes, weights[1], locals.distance.v)]_vars

\* C3: each encoder invocation feeds the convolutions the one image passed as its
\* argument: the first inputs[0] alone, the second inputs[1] alone, and the first
\* embedding is the encoding of inputs[0] alone.
C3_EncodesEachImageAlone ==
    state = "Evaluating" =>
        /\ \A t \in 1..2 : encIn[t] # None => encIn[t].v = Item(locals.inputs.v, t)
        /\ locals.first.bound =>
              locals.first.v = Encode(weights[1], Item(locals.inputs.v, 1))
        /\ locals.second.bound =>
              locals.second.v = Encode(weights[1], Item(locals.inputs.v, 2))

\* C4: with a positive num_classes, a forward pass whose tensors the library
\* accepts ends Idle with a result of shape (batch, num_classes), never with an
\* error.
C4_ForwardCompletes ==
    (state \in {"Idle", "Failed"} /\ self.num_classes > 0 /\ Accepted(result)) =>
        /\ state = "Idle"
        /\ result.kind = "value"
        /\ result.value.shape = <<1, self.num_classes>>

\* C5: compute_output_shape on (batch, h, w, c) returns the rank-2 shape
\* (batch, num_classes).
C5_OutputShape ==
    lastShape # None => lastShape.out = <<lastShape.in[1], self.num_classes>>

\* C6: with the parameters fixed, the passes on (A, B) and on (B, A) both return
\* a score and the two scores are equal.
C6_Symmetry ==
    (/\ prev # None /\ result # None
     /\ state \in {"Idle", "Failed"}
     /\ Accepted(prev) /\ Accepted(result)
     /\ prev.inputs = <<result.inputs[2], result.inputs[1]>>) =>
        /\ prev.kind = "value"
        /\ result.kind = "value"
        /\ prev.value = result.value

\* C7: no constructed instance has a non-positive num_classes.
C7_EagerRejection == state # "Uninitialized" => self.num_classes > 0

\* C8: every step of a forward pass, failing or not, and every shape inference
\* leaves the configuration, the layer objects and the parameter values
\* unchanged; once constructed, the parameter values change only in a training
\* step.
C8_Frame ==
    [][/\ (CallStep \/ ComputeOutputShape) => UNCHANGED <<self, heap, weights>>
       /\ (state # "Uninitialized" /\ weights' # weights) => Train]_vars

\* C8 witness: a forward pass has failed and a shape inference has run
C8_Witness == state = "Failed" /\ result.kind = "error" /\ lastShape # None

\* C9: the L1 layer returns a tensor shaped like its arguments whose every
\* element is the absolute difference of the corresponding elements: it is
\* non-negative, equals one of the two signed differences, and is zero when the
\* arguments are equal.
C9_Distance ==
    l1_out # None =>
        LET a == l1_in.v[1]
            b == l1_in.v[2]
            d == l1_out.v
        IN  /\ Len(d) = Len(a)
            /\ \A i \in 1..Len(a) :
                  /\ Len(d[i]) = Len(a[i])
                  /\ \A j \in 1..Len(a[i]) :
                        /\ d[i][j] >= 0
                        /\ d[i][j] = a[i][j] - b[i][j] \/ d[i][j] = b[i][j] - a[i][j]
            /\ a = b => \A i \in 1..Len(a) : \A j \in 1..Len(a[i]) : d[i][j] = 0

\* C9 witness: the layer has run on arguments with a negative signed difference
C9_Witness ==
    /\ l1_out # None
    /\ \E j \in 1..EmbDim : l1_in.v[1][1][j] < l1_in.v[2][1][j]

\* C10: on a 105x105x1 image the stack up to flatten yields 9216 values per
\* example and the dense layer maps them to 4096.
C10_FlattenLength ==
    encInput = <<1, ImageSide, ImageSide, 1>> =>
        /\ encStep = Len(EncoderOrder) - 1 => encShape = <<1, DocFlatLen>>
        /\ encStep = Len(EncoderOrder) => encShape = <<1, EmbUnits>>

====
